---- MODULE Spec2Model ----
(***************************************************************************)
(* A model of display_movies.py: the environment validators, the movie     *)
(* locator (exclusion mode), the decode filter, the playlist writer, the   *)
(* player launcher and the __main__ pipeline that chains them.             *)
(*                                                                         *)
(* Text (paths, file contents) is a tuple of one-character strings, so     *)
(* that substring tests, whitespace splitting and newline joining are      *)
(* computed as Python computes them.  A file is a record                   *)
(* [exists, text]; text is <<>> when the file does not exist.              *)
(***************************************************************************)
EXTENDS Integers, Sequences, FiniteSets, TLC

VARIABLES
    REQUIRED_PROGRAMS,  \* config.REQUIRED_PROGRAMS: sequence of program names
    PATHS,              \* config.PATHS: sequence of base paths or None
    SAMPLE_FREQUENCY,   \* config.SAMPLE_FREQUENCY: sequence of integers
    FILENAME_PATTERN,   \* config.FILENAME_PATTERN: sequence of glob patterns
    installed,          \* programs that shutil.which resolves
    mounted,            \* directories that exist
    knownBad,           \* KNOWN_BAD_<mod>.txt, mod in {"IRIS", "AIA"}
    badMovies,          \* bad_movies_<mod>.txt, mod in {"IRIS", "AIA"}
    playlist,           \* playlist.m3u in the working directory
    entry,              \* what was called: __main__ or the launcher alone
    pc,                 \* position of the __main__ run
    zipPos,             \* tuples the zip(...) of line 190 has produced
    movies,             \* the list `movies` of __main__
    raised,             \* the uncaught exception that ended the run
    scanned,            \* base paths handed to get_paths_for_movies, in order
    launched,           \* playlist texts the player was started on, in order
    playlist0,          \* playlist.m3u as the run found it
    rewritten,          \* create_playlist has returned in this run
    loc,                \* one call of get_paths_for_movies
    pl,                 \* calls of create_playlist followed by a read back
    cv,                 \* one call of check_videos
    race                \* two runs sharing the working directory

vars == <<REQUIRED_PROGRAMS, PATHS, SAMPLE_FREQUENCY, FILENAME_PATTERN,
          installed, mounted, knownBad, badMovies, playlist, entry, pc,
          zipPos, movies, raised, scanned, launched, playlist0, rewritten,
          loc, pl, cv, race>>

configVars == <<REQUIRED_PROGRAMS, PATHS, SAMPLE_FREQUENCY, FILENAME_PATTERN>>
envVars    == <<installed, mounted, knownBad>>
mainVars   == <<entry, pc, zipPos, movies, raised, scanned, launched, playlist0,
                rewritten>>

(***************************************************************************)
(* Bounds of the model.                                                    *)
(***************************************************************************)
MaxEntries == 2     \* longest configured list
MaxWeight  == 2     \* largest sampling weight
MaxBad     == 2     \* most entries of a known-bad-file list
MaxMovies  == 2     \* longest list handed to create_playlist
MaxBatch   == 2     \* longest batch handed to check_videos

(***************************************************************************)
(* Text.                                                                   *)
(***************************************************************************)
Range(s) == {s[k] : k \in 1..Len(s)}

SeqsUpTo(S, n) == UNION {[1..k -> S] : k \in 0..n}

\* Python's None: a value no path equals (a path's elements are characters).
None == <<"None">>

NoFile == [exists |-> FALSE, text |-> <<>>]

NoError == [type |-> "none", what |-> <<>>]

FileOf(t) == [exists |-> TRUE, text |-> t]

\* Python: sub in s
Contains(s, sub) ==
    \E k \in 0..(Len(s) - Len(sub)) :
        \A j \in 1..Len(sub) : s[k + j] = sub[j]

StartsWith(s, p) ==
    /\ Len(p) <= Len(s)
    /\ \A j \in 1..Len(p) : s[j] = p[j]

\* The characters str.isspace() holds for, which strip() and split() treat as
\* separators.  One that has no escape in a string here is named by its
\* Python escape.
Whitespace ==
    {"\t", "\n", "\\x0b", "\f", "\r", "\\x1c", "\\x1d", "\\x1e", "\\x1f", " ",
     "\\x85", "\\xa0", "\\u1680", "\\u2000", "\\u2001", "\\u2002", "\\u2003",
     "\\u2004", "\\u2005", "\\u2006", "\\u2007", "\\u2008", "\\u2009",
     "\\u200a", "\\u2028", "\\u2029", "\\u202f", "\\u205f", "\\u3000"}

\* open() in text mode, read(): "\r\n" and a lone "\r" are read as "\n"
RECURSIVE ReadText(_)
ReadText(s) ==
    IF s = <<>> THEN <<>>
    ELSE IF Head(s) = "\r"
         THEN IF Len(s) >= 2 /\ s[2] = "\n"
              THEN <<"\n">> \o ReadText(Tail(Tail(s)))
              ELSE <<"\n">> \o ReadText(Tail(s))
         ELSE <<Head(s)>> \o ReadText(Tail(s))

\* Python: s.strip().split()  (runs of whitespace separate, no empty token)
RECURSIVE SplitTokens(_, _)
SplitTokens(s, cur) ==
    IF s = <<>>
    THEN IF cur = <<>> THEN <<>> ELSE <<cur>>
    ELSE IF Head(s) \in Whitespace
         THEN IF cur = <<>>
              THEN SplitTokens(Tail(s), <<>>)
              ELSE <<cur>> \o SplitTokens(Tail(s), <<>>)
         ELSE SplitTokens(Tail(s), Append(cur, Head(s)))

StripSplit(s) == SplitTokens(s, <<>>)

\* Python: "\n".join(items)
RECURSIVE JoinNewline(_)
JoinNewline(items) ==
    IF items = <<>> THEN <<>>
    ELSE IF Len(items) = 1 THEN items[1]
    ELSE items[1] \o <<"\n">> \o JoinNewline(Tail(items))

\* Python: s.split("\n")  (always at least one piece)
RECURSIVE SplitPieces(_, _)
SplitPieces(s, cur) ==
    IF s = <<>> THEN <<cur>>
    ELSE IF Head(s) = "\n"
         THEN <<cur>> \o SplitPieces(Tail(s), <<>>)
         ELSE SplitPieces(Tail(s), Append(cur, Head(s)))

SplitNewline(s) == SplitPieces(s, <<>>)

\* Python: lst * n  (n <= 0 gives the empty list)
RECURSIVE Repeat(_, _)
Repeat(lst, n) == IF n <= 0 THEN <<>> ELSE lst \o Repeat(lst, n - 1)

\* pathlib: Path(p).name, the part after the last "/"
RECURSIVE PathName(_)
PathName(p) ==
    IF \A k \in 1..Len(p) : p[k] # "/" THEN p
    ELSE PathName(Tail(p))

\* fnmatch of one name against a pattern whose only wildcard is "*"
RECURSIVE FnMatch(_, _)
FnMatch(pat, name) ==
    IF pat = <<>> THEN name = <<>>
    ELSE IF Head(pat) = "*"
         THEN \/ FnMatch(Tail(pat), name)
              \/ (name # <<>> /\ FnMatch(pat, Tail(name)))
         ELSE /\ name # <<>>
              /\ Head(name) = Head(pat)
              /\ FnMatch(Tail(pat), Tail(name))

(***************************************************************************)
(* The file system the runs see: directories and the movie files below     *)
(* them.                                                                   *)
(***************************************************************************)
IrisMarker == <<"i", "r", "i", "s">>

DirAIA       == <<"/", "a", "i", "a">>
DirIRIS      == <<"/", "i", "r", "i", "s">>
DirIRISUpper == <<"/", "I", "R", "I", "S">>
DirIRISCap   == <<"/", "I", "r", "i", "s">>
DirIRISSub   == <<"/", "i", "r", "i", "s", "/", "l", "2">>

FileA1 == DirAIA \o <<"/", "1", ".", "m">>
FileA2 == DirAIA \o <<"/", "s", "/", "2", ".", "m">>
FileA3 == DirAIA \o <<"/", "3", ".", "v">>
FileI1 == DirIRIS \o <<"/", "1", ".", "m">>
FileI2 == DirIRISSub \o <<"/", "4", ".", "v">>
FileU1 == DirIRISUpper \o <<"/", "5", ".", "m">>
FileX9 == <<"/", "x", "/", "9", ".", "m">>      \* not on the file system

FileA4 == DirAIA \o <<"/", "4", ".", "m">>

FileSystem == {FileA1, FileA2, FileA3, FileA4, FileI1, FileI2, FileU1}

PatternM == <<"*", ".", "m">>
PatternV == <<"*", ".", "v">>
Patterns == {PatternM, PatternV}

Mods == {"IRIS", "AIA"}

\* pathlib: base_path.rglob(filename), as a set of str paths (line 143)
RGlob(base_path, filename) ==
    {f \in FileSystem :
        /\ StartsWith(f, base_path \o <<"/">>)
        /\ FnMatch(filename, PathName(f))}

(***************************************************************************)
(* get_paths_for_movies (lines 125-147).                                   *)
(***************************************************************************)
\* A case-insensitive test of the marker, as a plausible variant of line 142.
LowerChar(c) ==
    CASE c = "I" -> "i"
      [] c = "R" -> "r"
      [] c = "S" -> "s"
      [] OTHER   -> c

Lower(s) == [k \in 1..Len(s) |-> LowerChar(s[k])]

CategoryOfAnyCase(base_path) ==
    IF Contains(Lower(base_path), IrisMarker) THEN "IRIS" ELSE "AIA"

\* line 142: mod = "IRIS" if "iris" in str(base_path) else "AIA"
CategoryOf(base_path) ==
    IF Contains(base_path, IrisMarker) THEN "IRIS" ELSE "AIA"

\* A locator that forgets the subtraction of line 147.
KeepAll(files, bad_files) == files

\* line 147: set(files) - set(bad_files)
Subtract(files, bad_files) == files \ Range(bad_files)

\* The call's outcome before list() fixes an order: which list is opened,
\* whether open() finds it, and the set that line 147 builds.
GetPathsForMovies(base_path, filename, lists) ==
    LET mod       == CategoryOf(base_path)
        files     == RGlob(base_path, filename)
        content   == ReadText(lists[mod].text)
        bad_files == StripSplit(content)
    IN  [mod    |-> mod,
         found  |-> lists[mod].exists,
         result |-> IF lists[mod].exists
                    THEN Subtract(files, bad_files) ELSE {}]

\* list(set): every order of the elements is a possible result.
Orderings(S) ==
    {s \in [1..Cardinality(S) -> S] :
        \A a, b \in 1..Cardinality(S) : a # b => s[a] # s[b]}

(***************************************************************************)
(* One call of get_paths_for_movies on drawn inputs.                       *)
(***************************************************************************)
BasePaths == {DirAIA, DirIRIS, DirIRISUpper, DirIRISCap, DirIRISSub}

BadPool == {FileA1, FileI2, FileX9}

JoinWith(items, sep) ==
    IF items = <<>> THEN <<>>
    ELSE LET RECURSIVE J(_)
             J(k) == IF k = Len(items) THEN items[k] \o <<"\n">>
                     ELSE items[k] \o <<sep>> \o J(k + 1)
         IN  J(1)

\* Texts of a known-bad-file list: entries separated by a blank, a newline,
\* a carriage return or a form feed.
BadListTexts ==
    {JoinWith(e, sep) : e \in SeqsUpTo(BadPool, MaxBad),
                        sep \in {" ", "\n", "\r", "\f"}}

BadListFiles == {NoFile} \cup {FileOf(t) : t \in BadListTexts}

LocIdle == [pc |-> "idle", base_path |-> <<>>, filename |-> <<>>,
            mod |-> "", result |-> <<>>]

PlIdle == [pc |-> "idle", movies |-> <<>>, prior |-> NoFile, calls |-> 0,
           first |-> NoFile, lines |-> <<>>]

CvIdle == [pc |-> "idle", file_paths |-> <<>>, opens |-> {}, frames |-> {},
           prior |-> [m \in {"IRIS", "AIA"} |-> NoFile], result |-> <<>>,
           bad_movies |-> <<>>]

Instances == {1, 2}

NotStarted == [started |-> FALSE, found |-> FALSE, writer |-> 0,
               text |-> <<>>]

RaceIdle == [pc |-> [i \in Instances |-> "idle"],
             movies |-> [i \in Instances |-> <<>>],
             fd |-> [i \in Instances |-> "closed"],
             writer |-> 0,
             launched |-> [i \in Instances |-> NotStarted]]

MainIdle ==
    /\ REQUIRED_PROGRAMS = <<>>
    /\ PATHS = <<>>
    /\ SAMPLE_FREQUENCY = <<>>
    /\ FILENAME_PATTERN = <<>>
    /\ installed = {}
    /\ mounted = {}
    /\ entry = "none"
    /\ pc = "idle"
    /\ zipPos = 0
    /\ movies = <<>>
    /\ raised = NoError
    /\ scanned = <<>>
    /\ launched = <<>>
    /\ playlist0 = NoFile
    /\ rewritten = FALSE

InitLocator ==
    /\ MainIdle
    /\ knownBad \in [Mods -> BadListFiles]
    /\ badMovies = [m \in Mods |-> NoFile]
    /\ playlist = NoFile
    /\ \E b \in BasePaths, f \in Patterns :
           loc = [pc |-> "call", base_path |-> b, filename |-> f,
                  mod |-> "", result |-> <<>>]
    /\ pl = PlIdle
    /\ cv = CvIdle
    /\ race = RaceIdle

LocatorReturn ==
    /\ loc.pc = "call"
    /\ LET r == GetPathsForMovies(loc.base_path, loc.filename, knownBad)
       IN  /\ r.found
           /\ \E order \in Orderings(r.result) :
                  loc' = [loc EXCEPT !.pc = "returned", !.mod = r.mod,
                                     !.result = order]
    /\ UNCHANGED <<configVars, envVars, mainVars, badMovies, playlist,
                   pl, cv, race>>

LocatorRaise ==
    /\ loc.pc = "call"
    /\ LET r == GetPathsForMovies(loc.base_path, loc.filename, knownBad)
       IN  /\ ~r.found
           /\ loc' = [loc EXCEPT !.pc = "FileNotFoundError", !.mod = r.mod]
    /\ UNCHANGED <<configVars, envVars, mainVars, badMovies, playlist,
                   pl, cv, race>>

NextLocator == LocatorReturn \/ LocatorRaise

SpecLocator == InitLocator /\ [][NextLocator]_vars

(***************************************************************************)
(* Properties of get_paths_for_movies.                                     *)
(***************************************************************************)
LocMatches == RGlob(loc.base_path, loc.filename)

LocBadEntries == Range(StripSplit(ReadText(knownBad[loc.mod].text)))

NoDuplicates(s) == \A a, b \in 1..Len(s) : a # b => s[a] # s[b]

\* C4, as stated: the output holds no known-bad entry and no duplicate, and
\* its union with the content of the known-bad-file list is the unfiltered
\* match set.
C4_UnionIsMatchSet ==
    loc.pc = "returned" =>
        /\ Range(loc.result) \cap LocBadEntries = {}
        /\ NoDuplicates(loc.result)
        /\ Range(loc.result) \cup LocBadEntries = LocMatches

\* C4, amended: the output holds no known-bad entry and no duplicate, and
\* its union with the known-bad entries that are among the matches is the
\* unfiltered match set (the output is the set difference, matches minus
\* known-bad; entries of the list that match nothing are in neither).
C4_SetDifference ==
    loc.pc = "returned" =>
        /\ Range(loc.result) \cap LocBadEntries = {}
        /\ NoDuplicates(loc.result)
        /\ Range(loc.result) \cup (LocBadEntries \cap LocMatches) = LocMatches

\* A call that excluded a matched file, kept another, and whose list also
\* names a file that matches nothing.
C4_Witness ==
    /\ loc.pc = "returned"
    /\ loc.result # <<>>
    /\ LocBadEntries \cap LocMatches # {}
    /\ LocBadEntries \ LocMatches # {}

\* The lowercase letters i, r, i, s in a row somewhere in the text.
HasLowercaseIris(s) ==
    \E k \in 1..Len(s) :
        /\ k + 3 <= Len(s)
        /\ s[k] = "i" /\ s[k + 1] = "r" /\ s[k + 2] = "i" /\ s[k + 3] = "s"

LocFinished == loc.pc \in {"returned", "FileNotFoundError"}

\* C7, as stated: the list read is the IRIS list exactly when the name of
\* the base path holds the marker in any letter case.
C7_AnyCaseInName ==
    LocFinished =>
        loc.mod = IF Contains(Lower(PathName(loc.base_path)), IrisMarker)
                  THEN "IRIS" ELSE "AIA"

\* C7, amended: the list read is KNOWN_BAD_IRIS.txt exactly when the string
\* of the whole base path holds the lowercase text "iris" (a case-sensitive
\* test, on any component of the path), and KNOWN_BAD_AIA.txt otherwise; the
\* call raises FileNotFoundError exactly when that one list is missing.
C7_LowercaseInPath ==
    LocFinished =>
        LET expected == IF HasLowercaseIris(loc.base_path)
                        THEN "IRIS" ELSE "AIA"
        IN  /\ loc.mod = expected
            /\ loc.base_path \in {DirIRIS, DirIRISSub} => loc.mod = "IRIS"
            /\ loc.base_path \in {DirAIA, DirIRISUpper, DirIRISCap}
                   => loc.mod = "AIA"
            /\ (loc.pc = "FileNotFoundError") = ~knownBad[expected].exists

\* A base path named IRIS in upper case is served from the AIA list: the
\* call returns although the IRIS list is missing.
C7_Witness ==
    /\ loc.pc = "returned"
    /\ loc.base_path = DirIRISUpper
    /\ loc.mod = "AIA"
    /\ ~knownBad["IRIS"].exists
    /\ loc.result # <<>>

(***************************************************************************)
(* create_playlist (lines 150-163) and a read back of playlist.m3u.        *)
(***************************************************************************)
\* Path.unlink(missing_ok=True)
Unlink(file) == NoFile

\* open(mode="w"): the file is created, or emptied if it is there
OpenTruncate(file) == FileOf(<<>>)

\* write() and close() on a file opened at its start: the data replaces the
\* first Len(data) characters of what the file holds by then
WriteAtStart(file, data) ==
    FileOf(data \o SubSeq(file.text, Len(data) + 1, Len(file.text)))

\* Path.write_text(text): open(mode="w"), write, close
WriteText(file, text) == WriteAtStart(OpenTruncate(file), text)

\* A writer that appends to what is there instead of replacing it.
CreatePlaylistAppend(file, movie_list) ==
    FileOf(file.text \o JoinNewline(movie_list))

\* A writer that leaves a playlist it finds in place.
CreatePlaylistKeepExisting(file, movie_list) ==
    IF file.exists THEN file ELSE FileOf(JoinNewline(movie_list))

\* lines 161 and 163
CreatePlaylist(file, movie_list) ==
    WriteText(Unlink(file), JoinNewline(movie_list))

FileNL == <<"/", "n", "\n", "6", ".", "m">>     \* a name with a line break

MoviePool == {FileA1, FileI2, FileNL}

StaleText == JoinNewline(<<FileA3, FileA3, FileI1>>)

InitPlaylist ==
    /\ MainIdle
    /\ knownBad = [m \in Mods |-> NoFile]
    /\ badMovies = [m \in Mods |-> NoFile]
    /\ \E m \in SeqsUpTo(MoviePool, MaxMovies) :
       \E p \in {NoFile, FileOf(<<>>), FileOf(StaleText),
                 FileOf(JoinNewline(m))} :
           /\ playlist = p
           /\ pl = [pc |-> "start", movies |-> m, prior |-> p, calls |-> 0,
                    first |-> NoFile, lines |-> <<>>]
    /\ loc = LocIdle
    /\ cv = CvIdle
    /\ race = RaceIdle

PlaylistCreate ==
    /\ pl.pc \in {"start", "created"}
    /\ pl.calls < 2
    /\ playlist' = CreatePlaylist(playlist, pl.movies)
    /\ pl' = [pl EXCEPT !.pc = "created", !.calls = @ + 1,
                        !.first = IF pl.calls = 0 THEN playlist' ELSE @]
    /\ UNCHANGED <<configVars, envVars, mainVars, badMovies, loc, cv, race>>

PlaylistReadBack ==
    /\ pl.pc = "created"
    /\ playlist.exists
    /\ pl' = [pl EXCEPT !.pc = "read", !.lines = SplitNewline(playlist.text)]
    /\ UNCHANGED <<configVars, envVars, mainVars, badMovies, playlist, loc,
                   cv, race>>

NextPlaylist == PlaylistCreate \/ PlaylistReadBack

SpecPlaylist == InitPlaylist /\ [][NextPlaylist]_vars

NewlineFree(movie_list) ==
    \A k \in 1..Len(movie_list) : "\n" \notin Range(movie_list[k])

\* C5, as stated: for every list, the empty one included, the file read back
\* and split on newlines is the input list, and a second call with the same
\* list leaves the same file as the first.
C5_ReadBackIsInput ==
    /\ pl.pc = "read" => pl.lines = pl.movies
    /\ pl.calls = 2 => playlist = pl.first

\* C5, amended: for every non-empty list of paths that hold no newline,
\* whatever playlist.m3u held before, the file read back and split on
\* newlines is the input list in order; for the empty list the file is
\* empty and the split gives one empty string, not the empty list; a second
\* call with the same list leaves the same file as the first.
C5_ReadBackNonEmpty ==
    /\ (pl.pc = "read" /\ pl.movies # <<>> /\ NewlineFree(pl.movies))
           => pl.lines = pl.movies
    /\ (pl.pc = "read" /\ pl.movies = <<>>)
           => (playlist.text = <<>> /\ pl.lines = << <<>> >>)
    /\ pl.calls = 2 => playlist = pl.first

\* Two calls on a list of two paths over a longer stale playlist, read back.
C5_Witness ==
    /\ pl.pc = "read"
    /\ pl.calls = 2
    /\ Len(pl.movies) >= 2
    /\ NewlineFree(pl.movies)
    /\ pl.prior = FileOf(StaleText)
    /\ pl.lines = pl.movies

(***************************************************************************)
(* check_videos (lines 89-122).  cv2.VideoCapture is the environment: a    *)
(* path opens or not (cv.opens), and an opened one yields a frame or not   *)
(* (cv.frames).                                                            *)
(***************************************************************************)
\* lines 106-118: the loop, as [result, bad_movies]
RECURSIVE CheckLoop(_, _, _)
CheckLoop(file_paths, opens, frames) ==
    IF file_paths = <<>> THEN [result |-> <<>>, bad_movies |-> <<>>]
    ELSE LET file_path == Head(file_paths)
             rest      == CheckLoop(Tail(file_paths), opens, frames)
         IN  IF file_path \notin opens \/ file_path \notin frames
             THEN [rest EXCEPT !.bad_movies = <<file_path>> \o @]
             ELSE [rest EXCEPT !.result = <<file_path>> \o @]

\* line 119: file_path is the loop variable after the loop (the last path of
\* the batch) and file_path[0] its first character
ReportCategory(file_paths) ==
    LET file_path == file_paths[Len(file_paths)]
    IN  IF Contains(<<file_path[1]>>, IrisMarker) THEN "IRIS" ELSE "AIA"

BatchPool == {FileA1, FileI1, FileA3}

OldReport == FileOf(JoinNewline(<<FileX9, FileA2>>))

InitCheckVideos ==
    /\ MainIdle
    /\ knownBad = [m \in Mods |-> NoFile]
    /\ badMovies \in [Mods -> {NoFile, OldReport}]
    /\ playlist = NoFile
    /\ \E b \in SeqsUpTo(BatchPool, MaxBatch) :
       \E o \in SUBSET BatchPool :
       \E f \in SUBSET o :
           cv = [pc |-> "call", file_paths |-> b, opens |-> o, frames |-> f,
                 prior |-> badMovies, result |-> <<>>, bad_movies |-> <<>>]
    /\ loc = LocIdle
    /\ pl = PlIdle
    /\ race = RaceIdle

\* An empty batch leaves file_path unbound at line 119.
CheckVideosRaise ==
    /\ cv.pc = "call"
    /\ cv.file_paths = <<>>
    /\ cv' = [cv EXCEPT !.pc = "UnboundLocalError"]
    /\ UNCHANGED <<configVars, envVars, mainVars, badMovies, playlist, loc,
                   pl, race>>

CheckVideosReturn ==
    /\ cv.pc = "call"
    /\ cv.file_paths # <<>>
    /\ LET r   == CheckLoop(cv.file_paths, cv.opens, cv.frames)
           mod == ReportCategory(cv.file_paths)
       IN  /\ badMovies' = [badMovies EXCEPT ![mod] =
                   WriteText(Unlink(@), JoinNewline(r.bad_movies))]
           /\ cv' = [cv EXCEPT !.pc = "returned", !.result = r.result,
                               !.bad_movies = r.bad_movies]
    /\ UNCHANGED <<configVars, envVars, mainVars, playlist, loc, pl, race>>

NextCheckVideos == CheckVideosRaise \/ CheckVideosReturn

SpecCheckVideos == InitCheckVideos /\ [][NextCheckVideos]_vars

Fails(p) == p \notin cv.opens \/ p \notin cv.frames

\* The paths of a batch that fail (or pass), in batch order.
RECURSIVE Keep(_, _)
Keep(s, failing) ==
    IF s = <<>> THEN <<>>
    ELSE IF Fails(Head(s)) = failing
         THEN <<Head(s)>> \o Keep(Tail(s), failing)
         ELSE Keep(Tail(s), failing)

\* C8, as stated: for every batch, the empty one included, the call
\* completes; the returned list holds the candidates that open and yield a
\* frame, in input order; the others are in the report; and some report
\* file holds exactly this call's bad entries.
C8_CompletesAndPartitions ==
    /\ cv.pc # "UnboundLocalError"
    /\ cv.pc = "returned" =>
           /\ cv.result = Keep(cv.file_paths, FALSE)
           /\ cv.bad_movies = Keep(cv.file_paths, TRUE)
           /\ \E m \in Mods :
                  badMovies[m] = FileOf(JoinNewline(cv.bad_movies))

\* pathlib: Path(p).parent
RECURSIVE ParentOf(_)
ParentOf(p) ==
    IF p = <<>> THEN <<>>
    ELSE IF p[Len(p)] = "/" THEN SubSeq(p, 1, Len(p) - 1)
    ELSE ParentOf(SubSeq(p, 1, Len(p) - 1))

\* C9, as stated: the report written is bad_movies_IRIS.txt when "iris" is
\* in the directory name of the first failing path and bad_movies_AIA.txt
\* otherwise, and the other report file is left as it was.
C9_ReportOfFirstFailing ==
    (cv.pc = "returned" /\ cv.bad_movies # <<>>) =>
        LET mod == IF Contains(ParentOf(cv.bad_movies[1]), IrisMarker)
                   THEN "IRIS" ELSE "AIA"
        IN  /\ badMovies[mod] = FileOf(JoinNewline(cv.bad_movies))
            /\ \A m \in Mods \ {mod} : badMovies[m] = cv.prior[m]

(***************************************************************************)
(* The run of __main__ (lines 183-199), and play_movies_in_random_order    *)
(* called on its own.                                                      *)
(***************************************************************************)
Vlc    == <<"v", "l", "c">>
Ffplay == <<"f", "f", "p", "l", "a", "y">>

Programs == {Vlc, Ffplay}

Dirs == {DirAIA, DirIRIS}

KnownBadAIAText  == JoinWith(<<FileA1, FileX9>>, "\n")
KnownBadIRISText == JoinWith(<<FileI1>>, "\n")

KnownBadPresent == [m \in Mods |->
    FileOf(IF m = "IRIS" THEN KnownBadIRISText ELSE KnownBadAIAText)]

Fail(type, what) ==
    /\ pc' = "failed"
    /\ raised' = [type |-> type, what |-> what]

\* line 41: shutil.which(program) is None
NotInstalled(program) == program \notin installed

\* A check that forgets `directory is not None`.
NotMountedNoneIncluded(directory) == directory \notin mounted

\* line 57: directory is not None and not directory...exists()
NotMounted(directory) == directory # None /\ directory \notin mounted

\* The first element of a list that satisfies a test, by position.
FirstIndex(S) == CHOOSE k \in S : \A j \in S : k <= j

\* lines 30-43
CheckEverythingIsInstalled ==
    /\ pc = "check_everything_is_installed"
    /\ LET missing == {k \in 1..Len(REQUIRED_PROGRAMS) :
                          NotInstalled(REQUIRED_PROGRAMS[k])}
       IN  IF missing = {}
           THEN pc' = "check_directories_mounted" /\ UNCHANGED raised
           ELSE Fail("ModuleNotFoundError",
                     REQUIRED_PROGRAMS[FirstIndex(missing)])
    /\ UNCHANGED <<configVars, envVars, badMovies, playlist, entry, zipPos,
                   movies, scanned, launched, playlist0, rewritten,
                   loc, pl, cv, race>>

\* lines 46-59
CheckDirectoriesMounted ==
    /\ pc = "check_directories_mounted"
    /\ LET missing == {k \in 1..Len(PATHS) : NotMounted(PATHS[k])}
       IN  IF missing = {}
           THEN pc' = "for" /\ UNCHANGED raised
           ELSE Fail("OSError", PATHS[FirstIndex(missing)])
    /\ UNCHANGED <<configVars, envVars, badMovies, playlist, entry, zipPos,
                   movies, scanned, launched, playlist0, rewritten,
                   loc, pl, cv, race>>

\* zip(PATHS, SAMPLE_FREQUENCY, FILENAME_PATTERN): a tuple is produced while
\* every list has an element left.
ZipYields(pos) ==
    /\ pos < Len(PATHS)
    /\ pos < Len(SAMPLE_FREQUENCY)
    /\ pos < Len(FILENAME_PATTERN)

\* A zip without strict=True stops at the shortest list and says nothing.
ZipNeverRaises(pos) == FALSE

\* strict=True: when one list is exhausted and another is not, ValueError.
ZipRaises(pos) ==
    /\ ~ZipYields(pos)
    /\ \/ pos < Len(PATHS)
       \/ pos < Len(SAMPLE_FREQUENCY)
       \/ pos < Len(FILENAME_PATTERN)

\* `lst[::n]`: every n-th match instead of n copies of each.
EveryNth(lst, n) ==
    IF n <= 0 THEN <<>>
    ELSE [k \in 1..((Len(lst) + n - 1) \div n) |-> lst[(k - 1) * n + 1]]

\* line 197: get_paths_for_movies(...) * sample_frequency
Weighted(lst, sample_frequency) == Repeat(lst, sample_frequency)

\* lines 190-197, one pass of the loop.  CHECK_MOVIES is False (line 188), so
\* the branch of line 195 is never taken.
ForBody ==
    /\ pc = "for"
    /\ ZipYields(zipPos)
    /\ zipPos' = zipPos + 1
    /\ LET base_path        == PATHS[zipPos + 1]
           sample_frequency == SAMPLE_FREQUENCY[zipPos + 1]
           filename_pattern == FILENAME_PATTERN[zipPos + 1]
           r == GetPathsForMovies(base_path, filename_pattern, knownBad)
       IN  IF base_path = None
           THEN UNCHANGED <<pc, raised, movies, scanned>>
           ELSE /\ scanned' = Append(scanned, base_path)
                /\ IF ~r.found
                   THEN /\ Fail("FileNotFoundError", <<"KNOWN_BAD_", r.mod>>)
                        /\ UNCHANGED movies
                   ELSE /\ \E order \in Orderings(r.result) :
                               movies' = movies \o
                                   Weighted(order, sample_frequency)
                        /\ UNCHANGED <<pc, raised>>
    /\ UNCHANGED <<configVars, envVars, badMovies, playlist, entry, launched,
                   playlist0, rewritten, loc, pl, cv, race>>

\* line 190: the lists do not end together
ForStrictError ==
    /\ pc = "for"
    /\ ZipRaises(zipPos)
    /\ Fail("ValueError", <<>>)
    /\ UNCHANGED <<configVars, envVars, badMovies, playlist, entry, zipPos,
                   movies, scanned, launched, playlist0, rewritten,
                   loc, pl, cv, race>>

\* line 190: the lists end together
ForEnd ==
    /\ pc = "for"
    /\ ~ZipYields(zipPos)
    /\ ~ZipRaises(zipPos)
    /\ pc' = "create_playlist"
    /\ UNCHANGED <<configVars, envVars, badMovies, playlist, entry, zipPos,
                   movies, raised, scanned, launched, playlist0, rewritten,
                   loc, pl, cv, race>>

\* line 198
CreatePlaylistCall ==
    /\ pc = "create_playlist"
    /\ playlist' = CreatePlaylist(playlist, movies)
    /\ rewritten' = TRUE
    /\ pc' = "play_movies_in_random_order"
    /\ UNCHANGED <<configVars, envVars, badMovies, entry, zipPos, movies,
                   raised, scanned, launched, playlist0, loc, pl, cv, race>>

\* line 176: Path("playlist.m3u").exists()
Exists(file) == file.exists

\* line 180: the command os.system runs, and the playlist the player finds
PlayerCommand(file) ==
    [program |-> REQUIRED_PROGRAMS[1], rate |-> <<"0", ".", "5">>,
     flags |-> <<"fullscreen", "random", "loop">>,
     found |-> file.exists, text |-> file.text]

\* lines 166-180
PlayMoviesInRandomOrder ==
    /\ pc = "play_movies_in_random_order"
    /\ IF ~Exists(playlist)
       THEN /\ Fail("FileNotFoundError", <<"playlist.m3u">>)
            /\ UNCHANGED launched
       ELSE /\ launched' = Append(launched, PlayerCommand(playlist))
            /\ pc' = "done"
            /\ UNCHANGED raised
    /\ UNCHANGED <<configVars, envVars, badMovies, playlist, entry, zipPos,
                   movies, scanned, playlist0, rewritten, loc, pl, cv, race>>

StalePlaylist == FileOf(StaleText)

Harnesses == loc = LocIdle /\ pl = PlIdle /\ cv = CvIdle /\ race = RaceIdle

RunStart(e, start) ==
    /\ entry = e
    /\ pc = start
    /\ zipPos = 0
    /\ movies = <<>>
    /\ raised = NoError
    /\ scanned = <<>>
    /\ launched = <<>>
    /\ playlist0 = playlist
    /\ rewritten = FALSE
    /\ badMovies = [m \in Mods |-> NoFile]
    /\ REQUIRED_PROGRAMS = <<Vlc, Ffplay>>
    /\ Harnesses

\* Configurations whose lists agree in length, every content, in a healthy
\* environment with a playlist left by an earlier run.
InitAligned ==
    /\ \E n \in 0..MaxEntries :
           /\ PATHS \in [1..n -> Dirs \cup {None}]
           /\ SAMPLE_FREQUENCY \in [1..n -> 0..MaxWeight]
           /\ FILENAME_PATTERN \in [1..n -> Patterns]
    /\ installed = Programs
    /\ mounted = Dirs
    /\ knownBad = KnownBadPresent
    /\ playlist = StalePlaylist
    /\ RunStart("__main__", "check_everything_is_installed")

\* Every shape of the three lists and every environment: programs missing,
\* directories unmounted, known-bad lists absent, playlist absent or stale.
InitAnyShape ==
    /\ PATHS \in SeqsUpTo(Dirs \cup {None}, MaxEntries)
    /\ \E n \in 0..MaxEntries : SAMPLE_FREQUENCY = [k \in 1..n |-> MaxWeight]
    /\ \E n \in 0..MaxEntries : FILENAME_PATTERN = [k \in 1..n |-> PatternM]
    /\ installed \in SUBSET Programs
    /\ mounted \in SUBSET Dirs
    /\ knownBad \in [Mods -> {NoFile}] \cup {KnownBadPresent}
                    \cup {[KnownBadPresent EXCEPT ![m] = NoFile] : m \in Mods}
    /\ playlist \in {NoFile, StalePlaylist}
    /\ RunStart("__main__", "check_everything_is_installed")

\* Directories [A, None, B] with patterns and weights [1, 1, 2], a sound
\* environment.
InitExample ==
    /\ PATHS = <<DirAIA, None, DirIRIS>>
    /\ SAMPLE_FREQUENCY = <<1, 1, 2>>
    /\ FILENAME_PATTERN = <<PatternM, PatternM, PatternV>>
    /\ installed = Programs
    /\ mounted = Dirs
    /\ knownBad = KnownBadPresent
    /\ playlist \in {NoFile, StalePlaylist}
    /\ RunStart("__main__", "check_everything_is_installed")

\* play_movies_in_random_order called with no run of __main__ before it.
InitLauncher ==
    /\ PATHS = <<>>
    /\ SAMPLE_FREQUENCY = <<>>
    /\ FILENAME_PATTERN = <<>>
    /\ installed = Programs
    /\ mounted = Dirs
    /\ knownBad = KnownBadPresent
    /\ playlist \in {NoFile, StalePlaylist}
    /\ RunStart("play_movies_in_random_order", "play_movies_in_random_order")

Init == InitAligned \/ InitAnyShape \/ InitExample \/ InitLauncher

Next ==
    \/ CheckEverythingIsInstalled
    \/ CheckDirectoriesMounted
    \/ ForBody
    \/ ForStrictError
    \/ ForEnd
    \/ CreatePlaylistCall
    \/ PlayMoviesInRandomOrder

Spec == Init /\ [][Next]_vars

(***************************************************************************)
(* Properties of the run.                                                  *)
(***************************************************************************)
Main == entry = "__main__"

\* C1: the player is started only on a playlist.m3u that exists at that
\* moment and, in a run of __main__, only after create_playlist has returned
\* in the same run, on the text that call wrote (never on what an earlier
\* run left); a run that fails starts no player; and the launcher called
\* with no playlist file raises FileNotFoundError and starts no player.
C1_PlaysOnlyFreshPlaylist ==
    /\ \A k \in 1..Len(launched) :
           /\ launched[k].found
           /\ playlist.exists
           /\ Main => /\ rewritten
                      /\ launched[k].text = JoinNewline(movies)
                      /\ playlist.text = JoinNewline(movies)
    /\ pc = "failed" => launched = <<>>
    /\ (pc = "play_movies_in_random_order" /\ Main) => rewritten
    /\ (entry = "play_movies_in_random_order" /\ ~playlist0.exists
            /\ pc # "play_movies_in_random_order")
           => /\ pc = "failed"
              /\ raised = [type |-> "FileNotFoundError",
                           what |-> <<"playlist.m3u">>]
              /\ launched = <<>>

\* A finished run of __main__ that found a stale playlist and started the
\* player on a different, freshly written one.
C1_Witness ==
    /\ Main
    /\ pc = "done"
    /\ playlist0 = StalePlaylist
    /\ Len(launched) = 1
    /\ launched[1].text # playlist0.text
    /\ launched[1].text # <<>>
    /\ launched[1].program = Vlc

MissingPrograms ==
    {k \in 1..Len(REQUIRED_PROGRAMS) : REQUIRED_PROGRAMS[k] \notin installed}

MissingDirectories ==
    {k \in 1..Len(PATHS) : PATHS[k] # None /\ PATHS[k] \notin mounted}

\* C2: with a required program missing or a non-null directory absent, the
\* run never leaves the validators: it fails there with the first missing
\* program (else the first absent directory) in configuration order, no
\* directory is scanned, playlist.m3u is left as found and the player is not
\* started; in a sound environment no validator error is raised, null
\* entries or not.
C2_ValidatorsStopTheRun ==
    Main =>
        /\ (MissingPrograms # {} \/ MissingDirectories # {}) =>
               /\ pc \in {"check_everything_is_installed",
                          "check_directories_mounted", "failed"}
               /\ scanned = <<>>
               /\ playlist = playlist0
               /\ launched = <<>>
               /\ ~rewritten
        /\ (MissingPrograms # {} /\ pc # "check_everything_is_installed") =>
               /\ pc = "failed"
               /\ raised.type = "ModuleNotFoundError"
               /\ \E k \in MissingPrograms :
                      /\ raised.what = REQUIRED_PROGRAMS[k]
                      /\ \A j \in 1..(k - 1) : j \notin MissingPrograms
        /\ (MissingPrograms = {} /\ MissingDirectories # {}
                /\ pc \notin {"check_everything_is_installed",
                              "check_directories_mounted"}) =>
               /\ pc = "failed"
               /\ raised.type = "OSError"
               /\ \E k \in MissingDirectories :
                      /\ raised.what = PATHS[k]
                      /\ \A j \in 1..(k - 1) : j \notin MissingDirectories
        /\ (MissingPrograms = {} /\ MissingDirectories = {}) =>
               raised.type \notin {"ModuleNotFoundError", "OSError"}

\* The run failed in check_directories_mounted on the second entry, the
\* first being null, and left the stale playlist alone.
C2_Witness ==
    /\ Main
    /\ pc = "failed"
    /\ raised.type = "OSError"
    /\ Len(PATHS) >= 2
    /\ PATHS[1] = None
    /\ raised.what = PATHS[2]
    /\ playlist = StalePlaylist

SameLengths ==
    /\ Len(PATHS) = Len(SAMPLE_FREQUENCY)
    /\ Len(PATHS) = Len(FILENAME_PATTERN)

\* Python: s.count(x)
RECURSIVE Count(_, _)
Count(s, x) ==
    IF s = <<>> THEN 0
    ELSE (IF Head(s) = x THEN 1 ELSE 0) + Count(Tail(s), x)

\* The paths a playlist text lists: its lines that are not empty.
RECURSIVE NonEmpty(_)
NonEmpty(s) ==
    IF s = <<>> THEN <<>>
    ELSE IF Head(s) = <<>> THEN NonEmpty(Tail(s))
         ELSE <<Head(s)>> \o NonEmpty(Tail(s))

PlaylistEntries == NonEmpty(SplitNewline(playlist.text))

\* What entry k of the configuration locates.
Located(k) ==
    IF PATHS[k] = None THEN {}
    ELSE GetPathsForMovies(PATHS[k], FILENAME_PATTERN[k], knownBad).result

\* The copies of path p a configuration asks for: the weights of the
\* entries that locate it, summed.
RECURSIVE Copies(_, _)
Copies(p, k) ==
    IF k = 0 THEN 0
    ELSE (IF p \in Located(k) THEN SAMPLE_FREQUENCY[k] ELSE 0)
             + Copies(p, k - 1)

\* C3: when the three lists agree in length and the run succeeds, the
\* playlist lists each located path as many times as the weights of the
\* entries that locate it sum to, and nothing else; a null entry adds
\* nothing and does not stop the run.
C3_PlaylistIsWeightedMultiset ==
    (Main /\ SameLengths /\ pc = "done") =>
        \A p \in FileSystem \cup Range(PlaylistEntries) :
            Count(PlaylistEntries, p) = Copies(p, Len(PATHS))

\* The run over directories [A, None, B] with weights [1, 1, 2] succeeded:
\* the playlist lists each file located under A once and the file located
\* under B twice, the file A's known-bad list names is left out, and the
\* null entry added nothing.
C3_Witness ==
    /\ Main
    /\ pc = "done"
    /\ PATHS = <<DirAIA, None, DirIRIS>>
    /\ SAMPLE_FREQUENCY = <<1, 1, 2>>
    /\ Len(PlaylistEntries) = 4
    /\ Count(PlaylistEntries, FileA2) = 1
    /\ Count(PlaylistEntries, FileA4) = 1
    /\ Count(PlaylistEntries, FileI2) = 2
    /\ Count(PlaylistEntries, FileA1) = 0

\* C6, as stated: when the three lists differ in length the run fails
\* before any directory is scanned, playlist.m3u is not written and the
\* player is not started.
C6_NothingScanned ==
    (Main /\ ~SameLengths) =>
        /\ scanned = <<>>
        /\ playlist = playlist0
        /\ launched = <<>>
        /\ pc \notin {"create_playlist", "play_movies_in_random_order",
                      "done"}

Shortest ==
    LET a == Len(PATHS)
        b == Len(SAMPLE_FREQUENCY)
        c == Len(FILENAME_PATTERN)
    IN  IF a <= b /\ a <= c THEN a ELSE IF b <= c THEN b ELSE c

\* The non-null entries among the first n of PATHS, in order.
RECURSIVE LeadingDirectories(_)
LeadingDirectories(n) ==
    IF n = 0 THEN <<>>
    ELSE LeadingDirectories(n - 1)
             \o (IF PATHS[n] = None THEN <<>> ELSE <<PATHS[n]>>)

\* C6, amended: when the three lists differ in length the run fails before
\* create_playlist: playlist.m3u is not written and the player is not
\* started.  The length error is raised by the strict zip only once the
\* shortest list is used up, so the non-null directories among the leading
\* entries (as many as the shortest list holds) are scanned first; nothing
\* is scanned only when there is no such directory or an earlier failure
\* ended the run.
C6_FailsBeforePlaylist ==
    (Main /\ ~SameLengths) =>
        /\ playlist = playlist0
        /\ launched = <<>>
        /\ ~rewritten
        /\ pc \notin {"create_playlist", "play_movies_in_random_order",
                      "done"}
        /\ zipPos <= Shortest
        /\ (pc = "failed" /\ raised.type = "ValueError") =>
               /\ zipPos = Shortest
               /\ scanned = LeadingDirectories(Shortest)

\* The run scanned a directory and then failed on the lengths, the stale
\* playlist untouched.
C6_Witness ==
    /\ Main
    /\ ~SameLengths
    /\ pc = "failed"
    /\ raised.type = "ValueError"
    /\ scanned # <<>>
    /\ playlist = StalePlaylist

(***************************************************************************)
(* Two runs in one working directory, from create_playlist on (lines       *)
(* 150-180).  Each file-system call is a step: unlink, the open() and the  *)
(* write-and-close of write_text, exists, os.system.  race.fd[i] says      *)
(* whether the file run i holds open is the one playlist.m3u names         *)
(* ("linked") or one that was unlinked since ("orphan"); race.writer is    *)
(* the run that last wrote into the file playlist.m3u names (0: nobody     *)
(* since it was created or emptied).                                       *)
(***************************************************************************)
RaceMoviePool == {FileA1, FileI2}

InitRace ==
    /\ MainIdle
    /\ knownBad = [m \in Mods |-> NoFile]
    /\ badMovies = [m \in Mods |-> NoFile]
    /\ playlist \in {NoFile, StalePlaylist}
    /\ \E m \in [Instances -> SeqsUpTo(RaceMoviePool, MaxMovies)] :
           race = [pc |-> [i \in Instances |-> "unlink"],
                   movies |-> m,
                   fd |-> [i \in Instances |-> "closed"],
                   writer |-> 0,
                   launched |-> [i \in Instances |-> NotStarted]]
    /\ loc = LocIdle
    /\ pl = PlIdle
    /\ cv = CvIdle

Other(i) == CHOOSE j \in Instances : j # i

\* A lock on playlist.m3u held from the unlink to the launch.
WaitsForLock(i) ==
    race.pc[Other(i)] \in {"unlink", "done", "failed"}
        \/ race.pc[i] # "unlink"

\* Nothing in lines 150-180 waits for another process: no lock is taken.
MayProceed(i) == TRUE

\* line 161: the name is removed; a file another run holds open lives on
\* without a name
RaceUnlink(i) ==
    /\ race.pc[i] = "unlink"
    /\ MayProceed(i)
    /\ playlist' = Unlink(playlist)
    /\ race' = [race EXCEPT
                   !.pc[i] = "open",
                   !.fd = [j \in Instances |->
                              IF @[j] = "linked" THEN "orphan" ELSE @[j]],
                   !.writer = 0]
    /\ UNCHANGED <<configVars, envVars, mainVars, badMovies, loc, pl, cv>>

\* line 163, write_text: open(mode="w")
RaceOpen(i) ==
    /\ race.pc[i] = "open"
    /\ MayProceed(i)
    /\ playlist' = OpenTruncate(playlist)
    /\ race' = [race EXCEPT !.pc[i] = "write", !.fd[i] = "linked",
                            !.writer = 0]
    /\ UNCHANGED <<configVars, envVars, mainVars, badMovies, loc, pl, cv>>

\* line 163, write_text: write() and close(); the data reaches the file the
\* run opened, which playlist.m3u may no longer name
RaceWrite(i) ==
    /\ race.pc[i] = "write"
    /\ MayProceed(i)
    /\ IF race.fd[i] = "linked"
       THEN /\ playlist' =
                   WriteAtStart(playlist, JoinNewline(race.movies[i]))
            /\ race' = [race EXCEPT !.pc[i] = "exists", !.fd[i] = "closed",
                                    !.writer = i]
       ELSE /\ UNCHANGED playlist
            /\ race' = [race EXCEPT !.pc[i] = "exists", !.fd[i] = "closed"]
    /\ UNCHANGED <<configVars, envVars, mainVars, badMovies, loc, pl, cv>>

\* lines 176-178
RaceExists(i) ==
    /\ race.pc[i] = "exists"
    /\ MayProceed(i)
    /\ race' = [race EXCEPT !.pc[i] =
                   IF Exists(playlist) THEN "system" ELSE "failed"]
    /\ UNCHANGED <<configVars, envVars, mainVars, badMovies, playlist,
                   loc, pl, cv>>

\* line 180
RaceSystem(i) ==
    /\ race.pc[i] = "system"
    /\ MayProceed(i)
    /\ race' = [race EXCEPT !.pc[i] = "done",
                            !.launched[i] =
                                [started |-> TRUE, found |-> playlist.exists,
                                 writer |-> race.writer,
                                 text |-> playlist.text]]
    /\ UNCHANGED <<configVars, envVars, mainVars, badMovies, playlist,
                   loc, pl, cv>>

RaceStep(i) ==
    \/ RaceUnlink(i)
    \/ RaceOpen(i)
    \/ RaceWrite(i)
    \/ RaceExists(i)
    \/ RaceSystem(i)

NextRace == \E i \in Instances : RaceStep(i)

SpecRace == InitRace /\ [][NextRace]_vars

\* What a file holds when `data` was written at its start over `old`.
Over(data, old) == data \o SubSeq(old, Len(data) + 1, Len(old))

\* C10: the two runs are not coordinated on playlist.m3u: whatever the other
\* run is doing, a run that has not finished can take its next step (it
\* never waits), so every interleaving of the unlink, open, write,
\* exists-check and launch steps can happen; and what a run's player is
\* started on is then whatever the file holds at that moment: nothing, an
\* empty file, its own text, the other run's, or one written over the start
\* of the other.
C10_NoCoordination ==
    /\ \A i \in Instances :
           race.pc[i] \in {"unlink", "open", "write", "exists", "system"}
               => ENABLED RaceStep(i)
    /\ \A i \in Instances :
           race.launched[i].started =>
               LET own   == JoinNewline(race.movies[i])
                   other == JoinNewline(race.movies[Other(i)])
               IN  \/ ~race.launched[i].found
                   \/ race.launched[i].text \in
                          {<<>>, own, other, Over(own, other),
                           Over(other, own)}

\* A run started the player on text the other run wrote, different from
\* its own.
C10_Witness ==
    \E i \in Instances :
        /\ race.launched[i].started
        /\ race.launched[i].found
        /\ race.launched[i].writer = Other(i)
        /\ race.launched[i].text = JoinNewline(race.movies[Other(i)])
        /\ race.launched[i].text # JoinNewline(race.movies[i])

\* A run's launcher raised playlist-not-found: the other run removed the
\* file after this run wrote it.
C10_NotFoundReached ==
    \E i \in Instances :
        /\ race.pc[i] = "failed"
        /\ race.pc[Other(i)] = "open"
        /\ ~playlist.exists

\* A run started the player on an existing, empty playlist: the other run
\* had opened the file and not yet written it.
C10_EmptyLaunchReached ==
    \E i \in Instances :
        /\ race.launched[i].started
        /\ race.launched[i].found
        /\ race.launched[i].text = <<>>
        /\ race.movies[i] # <<>>
        /\ race.pc[Other(i)] = "write"

\* A run started the player on a mix: the shorter text written over the
\* start of the longer one, both runs holding the same file open.
C10_MixedLaunchReached ==
    \E i \in Instances :
        /\ race.launched[i].started
        /\ race.launched[i].found
        /\ race.launched[i].text \notin
               {<<>>, JoinNewline(race.movies[i]),
                JoinNewline(race.movies[Other(i)])}

====
